---------------------------- MODULE Spec2Model ----------------------------
(***************************************************************************)
(* Comments / feedback API (express + mongoose).                           *)
(*                                                                         *)
(* The model follows the most capable variant of each router:              *)
(*   comments router   src/unnamed/part_002, lines 187-468                 *)
(*   internal router   src/src/routes/api/internal.ts                      *)
(*   feedback router   src/src/routes/api/feedback.ts, lines 121-301       *)
(*   Comment model     src/unnamed/part_003, lines 40-62                   *)
(*   Feedback model    src/src/models/Feedback.ts                          *)
(*                                                                         *)
(* Text that the code transforms (trim, whitespace collapsing) is a        *)
(* sequence of one-character strings; opaque text (keys, e-mail            *)
(* addresses, status names) is a TLA+ string.  A JSON object or a mongo    *)
(* document is a record whose DOMAIN holds exactly the fields present, so  *)
(* an optional field that is absent is absent from the DOMAIN.             *)
(***************************************************************************)
EXTENDS Integers, Sequences, FiniteSets, TLC

VARIABLES
    AUTO_VISIBLE,        \* process.env.COMMENTS_AUTO_VISIBLE === "true"
    ADMIN_KEY,           \* process.env.COMMENTS_ADMIN_KEY || ""
    SERVICE_KEY,         \* process.env.COMMENTS_SERVICE_KEY ("" when unset)
    FEEDBACK_ADMIN_KEY,  \* process.env.FEEDBACK_ADMIN_KEY ?? ""
    comments,            \* the "comments" collection: _id -> document
    feedback,            \* the "feedbacks" collection: _id -> document
    nextId,              \* number of documents created so far (ObjectId source)
    inflight             \* per client: the handler suspended at an await, if any

env == <<AUTO_VISIBLE, ADMIN_KEY, SERVICE_KEY, FEEDBACK_ADMIN_KEY>>
vars == <<AUTO_VISIBLE, ADMIN_KEY, SERVICE_KEY, FEEDBACK_ADMIN_KEY,
          comments, feedback, nextId, inflight>>

(***************************************************************************)
(* Bounds of the model.                                                    *)
(***************************************************************************)
\* Documents (comments and feedback together) created in one behaviour.
MaxRecords == 2

(***************************************************************************)
(* Program constants.                                                      *)
(***************************************************************************)
BodyMin == 5
BodyMax == 2000
KeyMin == 1
KeyMax == 200
PublicLimit == 200
AdminLimitDefault == 200
AdminLimitMax == 500
MessageMin == 5
MessageMax == 3000
FeedbackRecentLimit == 20
FeedbackAllLimit == 100
FeedbackPublicLimitMax == 200

(***************************************************************************)
(* JavaScript values.                                                      *)
(***************************************************************************)
\* A document's or JSON object's field is present.
Has(o, f) == f \in DOMAIN o

\* { ...o, f: v }
With(o, f, v) == [x \in DOMAIN o \cup {f} |-> IF x = f THEN v ELSE o[x]]

\* const { f, ...rest } = o  (rest)
Without(o, fs) == [x \in DOMAIN o \ fs |-> o[x]]

\* White space as matched by \s and removed by String.prototype.trim.
IsSpace(c) == c = " "

RECURSIVE TrimStart(_)
TrimStart(s) ==
    IF s = <<>> THEN <<>>
    ELSE IF IsSpace(Head(s)) THEN TrimStart(Tail(s)) ELSE s

RECURSIVE TrimEnd(_)
TrimEnd(s) ==
    IF s = <<>> THEN <<>>
    ELSE IF IsSpace(s[Len(s)]) THEN TrimEnd(SubSeq(s, 1, Len(s) - 1)) ELSE s

\* String.prototype.trim
Trim(s) == TrimEnd(TrimStart(s))

\* s.replace(/\s+/g, " "): every run of white space becomes one blank.
RECURSIVE CollapseSpaces(_)
CollapseSpaces(s) ==
    IF s = <<>> THEN <<>>
    ELSE IF IsSpace(Head(s))
         THEN <<" ">> \o CollapseSpaces(TrimStart(s))
         ELSE <<Head(s)>> \o CollapseSpaces(Tail(s))

\* (s) => s.replace(/\s+/g, " ").trim()   (the zod transform of body/message)
NormalizeText(s) == Trim(CollapseSpaces(s))


(***************************************************************************)
(* HTTP responses: res.status(code).json(body).                            *)
(***************************************************************************)
Json(code, body) == [status |-> code, json |-> body]

ErrorJson(code, errCode) ==
    Json(code, [ok |-> FALSE, error |-> [code |-> errCode]])

\* The field paths present in a response body, one level below "data".
Shape(res) ==
    {<<f>> : f \in DOMAIN res.json}
    \cup (IF Has(res.json, "data")
          THEN {<<"data", f>> : f \in DOMAIN res.json.data} ELSE {})

\* req.header(name) !== key
HeaderDiffers(req, name, key) ==
    ~Has(req.headers, name) \/ req.headers[name] # key

(***************************************************************************)
(* Secret token codec.                                                     *)
(***************************************************************************)
\* crypto.randomBytes(24).toString("hex"): the n-th draw.  192 random bits
\* do not repeat, so distinct draws are distinct tokens.
randomBytesHex(n) == "rnd" \o ToString(n)

\* crypto.createHash("sha256").update(input, "utf8").digest("hex"):
\* one-way and collision free, never the input itself.
sha256Hex(input) == "sha256(" \o input \o ")"

(***************************************************************************)
(* The Comment model (mongoose).                                           *)
(***************************************************************************)
\* The paths CommentsSchema declares.
CommentsSchemaPaths ==
    {"normalizedKey", "brand", "model", "type", "body", "authorName",
     "authorEmail", "authorId", "status"}

\* Faulty variant: no path is declared select: false.
CommentsSelectNothing == {}

\* Paths declared select: false.
CommentsSelectFalse == {"authorEmail"}

CommentTypes == {"missing-data", "correction", "general"}
CommentStatuses == {"visible", "pending", "hidden"}

\* new Comment(obj) under the schema's default strict mode: a field the
\* schema does not declare is dropped; String paths declared trim: true are
\* trimmed; status defaults to "pending".
CommentCast(obj) ==
    LET kept == [f \in DOMAIN obj \cap CommentsSchemaPaths |->
                    IF f \in {"normalizedKey", "body"} THEN Trim(obj[f])
                    ELSE obj[f]]
    IN  IF Has(kept, "status") THEN kept ELSE With(kept, "status", "pending")

\* The schema's validators (required, enum, minlength, maxlength).
CommentValid(doc) ==
    /\ Has(doc, "normalizedKey") /\ doc.normalizedKey # <<>>
    /\ Has(doc, "type") /\ doc.type \in CommentTypes
    /\ Has(doc, "body") /\ doc.body # <<>>
    /\ Len(doc.body) >= BodyMin /\ Len(doc.body) <= BodyMax
    /\ doc.status \in CommentStatuses

\* A hydrated document's property: a getter exists for schema paths only.
CommentGet(doc, f) ==
    IF f \in CommentsSchemaPaths /\ Has(doc, f) THEN <<doc[f]>> ELSE <<>>

\* Fields a query returns by default: select: false paths are left out.
CommentDefaultView(doc) == Without(doc, CommentsSelectFalse)

\* .select("+authorEmail"): the default view plus the named path.
CommentViewPlus(doc, plus) == Without(doc, CommentsSelectFalse \ plus)

\* Documents of a set, newest first: .sort({ createdAt: -1 }).
RECURSIVE SortNewestFirst(_)
SortNewestFirst(S) ==
    IF S = {} THEN <<>>
    ELSE LET d == CHOOSE x \in S : \A y \in S : y.createdAt <= x.createdAt
         IN  <<d>> \o SortNewestFirst(S \ {d})

\* Faulty variant: the cap keeps the end of the list.
LimitFromEnd(seq, n) ==
    SubSeq(seq, IF Len(seq) < n THEN 1 ELSE Len(seq) - n + 1, Len(seq))

\* .limit(n)
Limit(seq, n) == SubSeq(seq, 1, IF Len(seq) < n THEN Len(seq) ELSE n)

\* The documents of a collection.
Docs(coll) == {coll[i] : i \in DOMAIN coll}

\* Model.findById(id): ids are ObjectIds; an id that is no ObjectId makes the
\* query throw a CastError.
ValidObjectId(id) == id > 0

\* The result of a handler: the collections after it and its response.
Out(c, f, n, res) == [comments |-> c, feedback |-> f, nextId |-> n, res |-> res]

\* A handler that leaves the store as it is.
Reply(res) == Out(comments, feedback, nextId, res)

\* The catch block of every comments/internal handler.
ServerError == ErrorJson(500, "SERVER_ERROR")

(***************************************************************************)
(* Comments router.                                                        *)
(***************************************************************************)
\* A JSON value that is not a string (a number, an object ...).
NotAString == "<number>"

\* Syntactically valid e-mail addresses (z.string().email()).
Emails == {"a@x.io", "b@x.io"}

\* Faulty variant of requireAdminKey: the presented key is not compared.
requireAdminKeyUncompared(req) ==
    IF ADMIN_KEY = "" THEN <<ErrorJson(501, "NOT_CONFIGURED")>> ELSE <<>>

\* requireAdminKey: <<>> when it returns true, else the response it sent.
requireAdminKey(req) ==
    IF ADMIN_KEY = "" THEN <<ErrorJson(501, "NOT_CONFIGURED")>>
    ELSE IF HeaderDiffers(req, "x-admin-key", ADMIN_KEY)
         THEN <<ErrorJson(401, "UNAUTHORIZED")>>
         ELSE <<>>

\* createCommentSchema.safeParse(body).success
createCommentSchemaOk(b) ==
    /\ Has(b, "normalizedKey")
    /\ Len(Trim(b.normalizedKey)) >= KeyMin
    /\ Len(Trim(b.normalizedKey)) <= KeyMax
    /\ Has(b, "type") /\ b.type \in CommentTypes
    /\ Has(b, "body") /\ Len(b.body) >= BodyMin /\ Len(b.body) <= BodyMax
    /\ Has(b, "authorEmail") => b.authorEmail \in Emails

\* The keys createCommentSchema declares.
createCommentSchemaKeys ==
    {"normalizedKey", "brand", "model", "type", "body", "authorName", "authorEmail", "hp"}

\* Faulty variant: keys the schema does not declare are passed through.
createCommentSchemaDataPassthrough(b) ==
    [f \in DOMAIN b |->
        IF f = "normalizedKey" THEN Trim(b[f])
        ELSE IF f = "body" THEN NormalizeText(b[f])
        ELSE b[f]]

\* createCommentSchema.safeParse(body).data: validate first, then transform;
\* a z.object drops the keys it does not declare.
createCommentSchemaData(b) ==
    [f \in DOMAIN b \cap createCommentSchemaKeys |->
        IF f = "normalizedKey" THEN Trim(b[f])
        ELSE IF f = "body" THEN NormalizeText(b[f])
        ELSE b[f]]

\* Faulty variant: the decoy field is never looked at.
HoneypotIgnored(data) == FALSE

\* hp && hp.trim() !== ""
HoneypotTripped(data) ==
    Has(data, "hp") /\ data.hp # <<>> /\ Trim(data.hp) # <<>>

\* What the honeypot branch answers.
HoneypotResponse == Json(200, [ok |-> TRUE])

\* Faulty variant: the creation's answer without the secret.
CreatedResponseNoKey(created, editKey) ==
    Json(200, [ok |-> TRUE, data |-> [id |-> created._id, status |-> created.status]])

\* What a stored comment's creation answers.
CreatedResponse(created, editKey) ==
    Json(200, [ok |-> TRUE,
               data |-> [id |-> created._id, status |-> created.status,
                         editKey |-> editKey]])

\* Faulty variant: every new comment is visible.
InitialStatusVisible == "visible"

\* Faulty variant: every new comment is pending.
InitialStatusPending == "pending"

\* The status a new comment gets.
InitialStatus == IF AUTO_VISIBLE THEN "visible" ELSE "pending"

\* router.post("/")
CommentsPost(req) ==
    IF ~createCommentSchemaOk(req.body) THEN Reply(ErrorJson(400, "VALIDATION_ERROR"))
    ELSE
    LET parsed == createCommentSchemaData(req.body)
        data == Without(parsed, {"hp"})
    IN  IF HoneypotTripped(parsed) THEN Reply(HoneypotResponse)
        ELSE
        LET editKey == randomBytesHex(nextId + 1)
            doc == CommentCast(With(With(data, "editKeyHash", sha256Hex(editKey)),
                                    "status", InitialStatus))
            created == With(With(doc, "_id", nextId + 1), "createdAt", nextId + 1)
        IN  IF ~CommentValid(doc) THEN Reply(ServerError)
            ELSE Out([i \in DOMAIN comments \cup {created._id} |->
                         IF i = created._id THEN created ELSE comments[i]],
                     feedback, nextId + 1, CreatedResponse(created, editKey))

\* Faulty variant: the filter without the status.
PublicFilterAnyStatus(slug) == {d \in Docs(comments) : d.normalizedKey = slug}

\* Comment.find({ normalizedKey: slug, status: "visible" })
PublicFilter(slug) ==
    {d \in Docs(comments) : d.normalizedKey = slug /\ d.status = "visible"}

\* router.get("/:slug")
CommentsGetSlug(req) ==
    LET slug == Trim(req.params.slug)
    IN  IF slug = <<>> THEN Reply(ErrorJson(400, "BAD_REQUEST"))
        ELSE LET found == Limit(SortNewestFirst(PublicFilter(slug)), PublicLimit)
             IN  Reply(Json(200, [ok |-> TRUE,
                     data |-> [comments |->
                        [i \in 1..Len(found) |-> CommentDefaultView(found[i])]]]))

\* parseInt(String(limit ?? dflt), 10): <<n>>, or <<>> for NaN.
ParsedLimit(query, dflt) ==
    IF Has(query, "limit") THEN query.limit ELSE <<dflt>>

\* Math.min(Math.max(parseInt(...) || 200, 1), 500)
AdminLimit(query) ==
    LET p == ParsedLimit(query, AdminLimitDefault)
        n == IF p = <<>> \/ p[1] = 0 THEN AdminLimitDefault ELSE p[1]
        lo == IF n < 1 THEN 1 ELSE n
    IN  IF lo > AdminLimitMax THEN AdminLimitMax ELSE lo

\* The filter object of the admin listing, cast by the query (a String path
\* declared trim: true trims the value it is compared with).
AdminFilter(query) ==
    [f \in {x \in {"status", "normalizedKey"} :
               \/ x = "status" /\ Has(query, "status") /\ query.status # ""
               \/ x = "normalizedKey" /\ Has(query, "slug") /\ query.slug # <<>>} |->
        IF f = "status" THEN query.status ELSE Trim(query.slug)]

\* A document matches an equality filter.
Matches(d, filter) == \A f \in DOMAIN filter : Has(d, f) /\ d[f] = filter[f]

\* router.get("/admin/list")
CommentsAdminList(req) ==
    LET denied == requireAdminKey(req)
    IN  IF denied # <<>> THEN Reply(denied[1])
        ELSE
        LET filter == AdminFilter(req.query)
            found == Limit(SortNewestFirst({d \in Docs(comments) : Matches(d, filter)}),
                           AdminLimit(req.query))
        IN  Reply(Json(200, [ok |-> TRUE,
                data |-> [items |->
                    [i \in 1..Len(found) |-> CommentViewPlus(found[i], {"authorEmail"})]]]))

\* Faulty variant: the update is an upsert, so an absent id gets a document.
SetStatusUpsert(req, target) ==
    LET denied == requireAdminKey(req)
        id == req.params.id
        old == IF id \in DOMAIN comments THEN comments[id]
               ELSE [_id |-> id, createdAt |-> id, normalizedKey |-> <<"k", "1">>,
                     type |-> "general", body |-> <<"h", "e", "l", "l", "o">>,
                     status |-> target]
        updated == [i \in DOMAIN comments \cup {id} |->
                       IF i = id THEN [old EXCEPT !.status = target] ELSE comments[i]]
    IN  IF denied # <<>> THEN Reply(denied[1])
        ELSE IF ~ValidObjectId(id) THEN Reply(ServerError)
        ELSE Out(updated, feedback, nextId,
                 Json(200, [ok |-> TRUE,
                            data |-> [comment |-> CommentDefaultView(updated[id])]]))

\* Comment.findByIdAndUpdate(id, { status }, { new: true }) and its answer.
SetStatus(req, target) ==
    LET denied == requireAdminKey(req)
        id == req.params.id
    IN  IF denied # <<>> THEN Reply(denied[1])
        ELSE IF ~ValidObjectId(id) THEN Reply(ServerError)
        ELSE IF id \notin DOMAIN comments THEN Reply(ErrorJson(404, "NOT_FOUND"))
        ELSE LET updated == [comments EXCEPT ![id].status = target]
             IN  Out(updated, feedback, nextId,
                     Json(200, [ok |-> TRUE,
                                data |-> [comment |-> CommentDefaultView(updated[id])]]))

\* router.patch("/:id/visible")
CommentsPatchVisible(req) == SetStatus(req, "visible")

\* Faulty variant: the hide route sets visible.
CommentsPatchHideAsVisible(req) == SetStatus(req, "visible")

\* router.patch("/:id/hide")
CommentsPatchHide(req) == SetStatus(req, "hidden")

\* The collection without document id.
Removed(coll, id) == [i \in DOMAIN coll \ {id} |-> coll[i]]

\* Faulty variant: the result of findByIdAndDelete is not looked at.
CommentsDeleteUnchecked(req) ==
    LET denied == requireAdminKey(req)
        id == req.params.id
    IN  IF denied # <<>> THEN Reply(denied[1])
        ELSE IF ~ValidObjectId(id) THEN Reply(ServerError)
        ELSE Out(Removed(comments, id), feedback, nextId, Json(200, [ok |-> TRUE]))

\* router.delete("/:id")
CommentsDelete(req) ==
    LET denied == requireAdminKey(req)
        id == req.params.id
    IN  IF denied # <<>> THEN Reply(denied[1])
        ELSE IF ~ValidObjectId(id) THEN Reply(ServerError)
        ELSE IF id \notin DOMAIN comments THEN Reply(ErrorJson(404, "NOT_FOUND"))
        ELSE Out(Removed(comments, id), feedback, nextId, Json(200, [ok |-> TRUE]))

\* Faulty variant: the stored digest is not looked at.
hasGuestKeyAnySecret(data, comment) == Has(data, "editKey") /\ data.editKey # ""

\* hasGuestKey
hasGuestKey(data, comment) ==
    /\ Has(data, "editKey") /\ data.editKey # ""
    /\ CommentGet(comment, "editKeyHash") # <<>>
    /\ CommentGet(comment, "editKeyHash")[1] # ""
    /\ sha256Hex(data.editKey) = CommentGet(comment, "editKeyHash")[1]

\* selfEditSchema.safeParse(body).success
selfEditSchemaOk(b) ==
    /\ Has(b, "body") /\ Len(b.body) >= BodyMin /\ Len(b.body) <= BodyMax
    /\ Has(b, "editKey") => b.editKey # NotAString

\* selfDeleteSchema.safeParse(body ?? {}).success
selfDeleteSchemaOk(b) == Has(b, "editKey") => b.editKey # NotAString

\* router.patch("/:id/self")
CommentsPatchSelf(req) ==
    LET id == req.params.id
    IN  IF ~selfEditSchemaOk(req.body) THEN Reply(ErrorJson(400, "VALIDATION_ERROR"))
        ELSE IF ~ValidObjectId(id) THEN Reply(ServerError)
        ELSE IF id \notin DOMAIN comments THEN Reply(ErrorJson(404, "NOT_FOUND"))
        ELSE IF ~hasGuestKey(req.body, comments[id]) THEN Reply(ErrorJson(403, "FORBIDDEN"))
        ELSE LET saved == [comments[id] EXCEPT !.body = Trim(NormalizeText(req.body.body))]
             IN  IF ~CommentValid(saved) THEN Reply(ServerError)
                 ELSE Out([comments EXCEPT ![id] = saved], feedback, nextId,
                          Json(200, [ok |-> TRUE, data |-> [id |-> id]]))

\* Faulty variant: the comment is removed before the secret is checked.
CommentsDeleteSelfWriteFirst(req) ==
    LET id == req.params.id
    IN  IF ~selfDeleteSchemaOk(req.body) THEN Reply(ErrorJson(400, "VALIDATION_ERROR"))
        ELSE IF ~ValidObjectId(id) THEN Reply(ServerError)
        ELSE IF id \notin DOMAIN comments THEN Reply(ErrorJson(404, "NOT_FOUND"))
        ELSE Out(Removed(comments, id), feedback, nextId,
                 IF ~hasGuestKey(req.body, comments[id]) THEN ErrorJson(403, "FORBIDDEN")
                 ELSE Json(200, [ok |-> TRUE]))

\* router.delete("/:id/self")
CommentsDeleteSelf(req) ==
    LET id == req.params.id
    IN  IF ~selfDeleteSchemaOk(req.body) THEN Reply(ErrorJson(400, "VALIDATION_ERROR"))
        ELSE IF ~ValidObjectId(id) THEN Reply(ServerError)
        ELSE IF id \notin DOMAIN comments THEN Reply(ErrorJson(404, "NOT_FOUND"))
        ELSE IF ~hasGuestKey(req.body, comments[id]) THEN Reply(ErrorJson(403, "FORBIDDEN"))
        ELSE Out(Removed(comments, id), feedback, nextId, Json(200, [ok |-> TRUE]))

(***************************************************************************)
(* Internal router.                                                        *)
(***************************************************************************)
\* User ids that cast to an ObjectId.
UserIds == {"u1", "u2"}

\* An e-mail address with white space before it.
PaddedEmail == " a@x.io"

\* The query's cast of a value compared with authorEmail: the path is
\* declared trim: true, so the value is trimmed (of the opaque strings of
\* this model only PaddedEmail has white space around it).
CastEmail(email) == IF email = PaddedEmail THEN "a@x.io" ELSE email

\* Faulty variant: the filter without the e-mail address.
ClaimFilterAnyEmail(d, email) == ~Has(d, "authorId")

\* Faulty variant: the filter without { $exists: false }.
ClaimFilterAnyAuthor(d, email) ==
    Has(d, "authorEmail") /\ d.authorEmail = CastEmail(email)

\* { authorId: { $exists: false }, authorEmail: email }
ClaimFilter(d, email) ==
    ~Has(d, "authorId") /\ Has(d, "authorEmail") /\ d.authorEmail = CastEmail(email)

\* router.post("/comments/claim-by-email")
ClaimByEmail(req) ==
    IF SERVICE_KEY = "" \/ HeaderDiffers(req, "x-service-key", SERVICE_KEY)
    THEN Reply(ErrorJson(401, "UNAUTHORIZED"))
    ELSE IF \/ ~Has(req.body, "userId") \/ req.body.userId = ""
            \/ ~Has(req.body, "email") \/ req.body.email = ""
    THEN Reply(ErrorJson(400, "BAD_REQUEST"))
    ELSE IF req.body.userId \notin UserIds THEN Reply(ServerError)
    ELSE LET hit == {i \in DOMAIN comments : ClaimFilter(comments[i], req.body.email)}
         IN  Out([i \in DOMAIN comments |->
                     IF i \in hit THEN With(comments[i], "authorId", req.body.userId)
                     ELSE comments[i]],
                 feedback, nextId,
                 Json(200, [ok |-> TRUE,
                            data |-> [matched |-> Cardinality(hit),
                                      modified |-> Cardinality(hit)]]))

(***************************************************************************)
(* The handlers that reach the store more than once, cut at their awaits.  *)
(* Every single store operation (findById, save, findByIdAndUpdate,        *)
(* findByIdAndDelete, the update of one document by updateMany) is atomic; *)
(* other requests may be served between two of them.                       *)
(***************************************************************************)
\* What the self-service handlers read of the document they loaded:
\* comment._id and comment.editKeyHash.
LoadedView(doc) == [f \in DOMAIN doc \cap {"_id", "editKeyHash"} |-> doc[f]]

\* await Comment.findById(id): <<document>>, or <<>> for null.
FindById(id) == IF id \in DOMAIN comments THEN <<LoadedView(comments[id])>> ELSE <<>>

\* router.patch("/:id/self") suspended after its findById.
SelfEditLoaded(req) ==
    [op |-> "selfEdit", req |-> req, comment |-> FindById(req.params.id)]

\* router.patch("/:id/self") from the answer of findById to its response.
\* comment.save() writes the modified path only ($set of body on _id) and
\* rejects with DocumentNotFoundError when no document has that _id.
SelfEditResume(e) ==
    LET id == e.req.params.id
    IN  IF e.comment = <<>> THEN Reply(ErrorJson(404, "NOT_FOUND"))
        ELSE IF ~hasGuestKey(e.req.body, e.comment[1]) THEN Reply(ErrorJson(403, "FORBIDDEN"))
        ELSE IF id \notin DOMAIN comments THEN Reply(ServerError)
        ELSE LET saved == [comments[id] EXCEPT !.body = Trim(NormalizeText(e.req.body.body))]
             IN  IF ~CommentValid(saved) THEN Reply(ServerError)
                 ELSE Out([comments EXCEPT ![id] = saved], feedback, nextId,
                          Json(200, [ok |-> TRUE, data |-> [id |-> id]]))

\* router.delete("/:id/self") suspended after its findById.
SelfDeleteLoaded(req) ==
    [op |-> "selfDelete", req |-> req, comment |-> FindById(req.params.id)]

\* router.delete("/:id/self") from the answer of findById to its response;
\* the result of findByIdAndDelete is not looked at.
SelfDeleteResume(e) ==
    LET id == e.req.params.id
    IN  IF e.comment = <<>> THEN Reply(ErrorJson(404, "NOT_FOUND"))
        ELSE IF ~hasGuestKey(e.req.body, e.comment[1]) THEN Reply(ErrorJson(403, "FORBIDDEN"))
        ELSE Out(Removed(comments, id), feedback, nextId, Json(200, [ok |-> TRUE]))

\* Comment.updateMany of claim-by-email under way.  The documents that
\* exist when it starts (todo, with ids up to upto) are all visited, once
\* each; a document inserted while it runs may or may not be visited.
ClaimStarted(req) ==
    [op |-> "claim", req |-> req, todo |-> DOMAIN comments, upto |-> nextId]

\* Faulty variant: the update replaces the document instead of setting a path.
ClaimVisitReplace(e, id) ==
    IF ClaimFilter(comments[id], e.req.body.email)
    THEN [comments EXCEPT ![id] = [_id |-> id, authorId |-> e.req.body.userId]]
    ELSE comments

\* updateMany visits document id: match and $set are one atomic operation.
ClaimVisit(e, id) ==
    IF ClaimFilter(comments[id], e.req.body.email)
    THEN [comments EXCEPT ![id] = With(comments[id], "authorId", e.req.body.userId)]
    ELSE comments

(***************************************************************************)
(* The Feedback model and the feedback router.                             *)
(***************************************************************************)
FeedbackSchemaPaths == {"category", "message", "email", "pageUrl", "userAgent", "status"}
FeedbackCategories == {"bug", "feature", "content", "other"}
FeedbackStatuses == {"new", "triaged", "closed"}

\* new Feedback(obj): strict mode, status defaults to "new"; a field set to
\* undefined is not stored.
FeedbackCast(obj) ==
    LET kept == [f \in DOMAIN obj \cap FeedbackSchemaPaths |-> obj[f]]
    IN  IF Has(kept, "status") THEN kept ELSE With(kept, "status", "new")

\* The schema's validators.
FeedbackValid(doc) ==
    /\ Has(doc, "category") /\ doc.category \in FeedbackCategories
    /\ Has(doc, "message") /\ doc.message # <<>>
    /\ Len(doc.message) >= MessageMin /\ Len(doc.message) <= MessageMax
    /\ doc.status \in FeedbackStatuses

\* createSchema.safeParse(body).success
createSchemaOk(b) ==
    /\ Has(b, "category") /\ b.category \in FeedbackCategories
    /\ Has(b, "message") /\ Len(b.message) >= MessageMin /\ Len(b.message) <= MessageMax
    /\ Has(b, "email") => b.email \in Emails

\* The keys createSchema declares.
createSchemaKeys == {"category", "message", "email", "pageUrl", "hp"}

\* Faulty variant: the keys the schema does not declare are kept.
createSchemaDataUnstripped(b) ==
    [f \in DOMAIN b |-> IF f = "message" THEN NormalizeText(b[f]) ELSE b[f]]

\* createSchema.safeParse(body).data: a z.object drops the keys it does not
\* declare.
createSchemaData(b) ==
    [f \in DOMAIN b \cap createSchemaKeys |->
        IF f = "message" THEN NormalizeText(b[f]) ELSE b[f]]

\* router.post("/")
FeedbackPost(req) ==
    IF ~createSchemaOk(req.body) THEN Reply(ErrorJson(400, "VALIDATION_ERROR"))
    ELSE
    LET parsed == createSchemaData(req.body)
        data == Without(parsed, {"hp"})
    IN  IF HoneypotTripped(parsed) THEN Reply(Json(200, [ok |-> TRUE]))
        ELSE
        LET withUa == IF Has(req.headers, "user-agent") /\ req.headers["user-agent"] # ""
                      THEN With(data, "userAgent", req.headers["user-agent"])
                      ELSE data
            doc == FeedbackCast(withUa)
            created == With(With(doc, "_id", nextId + 1), "createdAt", nextId + 1)
        IN  IF ~FeedbackValid(doc) THEN Reply(ServerError)
            ELSE Out(comments,
                     [i \in DOMAIN feedback \cup {created._id} |->
                         IF i = created._id THEN created ELSE feedback[i]],
                     nextId + 1, Json(200, [ok |-> TRUE]))

\* Faulty variant: the ?status= list is not looked at.
allowedStatusesModeOnly(query) ==
    IF Has(query, "mode") /\ query.mode = "all"
    THEN {"new", "triaged", "closed"} ELSE {"new", "triaged"}

\* The statuses the public listing may show: the mode's, intersected with
\* the ?status= list (already split at "," and trimmed) when that names any.
allowedStatuses(query) ==
    LET byMode == IF Has(query, "mode") /\ query.mode = "all"
                  THEN {"new", "triaged", "closed"} ELSE {"new", "triaged"}
        asked == IF Has(query, "status")
                 THEN {query.status[i] : i \in 1..Len(query.status)} \cap FeedbackStatuses
                 ELSE {}
    IN  IF asked # {} THEN asked \cap byMode ELSE byMode

\* Math.min(Math.max(Number.isFinite(limParsed) ? limParsed : dflt, 1), max)
ClampLimit(query, dflt, max) ==
    LET p == ParsedLimit(query, dflt)
        n == IF p = <<>> THEN dflt ELSE p[1]
        lo == IF n < 1 THEN 1 ELSE n
    IN  IF lo > max THEN max ELSE lo

\* Faulty variant: the query without .select(...).
FeedbackPublicViewUnselected(doc) == doc

\* .select("category message pageUrl status createdAt"): _id stays unless excluded.
FeedbackPublicView(doc) ==
    [f \in DOMAIN doc \cap {"_id", "category", "message", "pageUrl", "status", "createdAt"} |->
        doc[f]]

\* router.get("/public")
FeedbackGetPublic(req) ==
    LET allowed == allowedStatuses(req.query)
        dflt == IF Has(req.query, "mode") /\ req.query.mode = "recent"
                THEN FeedbackRecentLimit ELSE FeedbackAllLimit
        found == Limit(SortNewestFirst({d \in Docs(feedback) : d.status \in allowed}),
                       ClampLimit(req.query, dflt, FeedbackPublicLimitMax))
    IN  Reply(Json(200, [ok |-> TRUE,
            data |-> [items |-> [i \in 1..Len(found) |-> FeedbackPublicView(found[i])]]]))

\* Faulty variant of requireAdmin: an unset key is compared like a set one.
requireAdminNoConfigCheck(req) ==
    IF HeaderDiffers(req, "x-admin-key", FEEDBACK_ADMIN_KEY)
    THEN <<ErrorJson(401, "UNAUTHORIZED")>>
    ELSE <<>>

\* requireAdmin: <<>> when it returns true, else the response it sent.
requireAdmin(req) ==
    IF FEEDBACK_ADMIN_KEY = "" THEN <<ErrorJson(501, "NOT_CONFIGURED")>>
    ELSE IF HeaderDiffers(req, "x-admin-key", FEEDBACK_ADMIN_KEY)
         THEN <<ErrorJson(401, "UNAUTHORIZED")>>
         ELSE <<>>

\* router.get("/admin/list")
FeedbackAdminList(req) ==
    LET denied == requireAdmin(req)
    IN  IF denied # <<>> THEN Reply(denied[1])
        ELSE
        LET byStatus == Has(req.query, "status") /\ req.query.status \notin {"", "all"}
            found == Limit(SortNewestFirst({d \in Docs(feedback) :
                                byStatus => d.status = req.query.status}),
                           ClampLimit(req.query, AdminLimitDefault, AdminLimitMax))
        IN  Reply(Json(200, [ok |-> TRUE, data |-> [items |-> found]]))

\* adminEditSchema.safeParse(body): the fields validate, and after the
\* transform one of message, status is truthy.
adminEditSchemaOk(b) ==
    /\ Has(b, "message") => Len(b.message) >= MessageMin /\ Len(b.message) <= MessageMax
    /\ Has(b, "status") => b.status \in FeedbackStatuses
    /\ \/ Has(b, "message") /\ NormalizeText(b.message) # <<>>
       \/ Has(b, "status")

\* adminEditSchema.safeParse(body).data
adminEditSchemaData(b) ==
    [f \in DOMAIN b \cap {"message", "status"} |->
        IF f = "message" THEN NormalizeText(b[f]) ELSE b[f]]

\* router.patch("/:id")
FeedbackPatch(req) ==
    LET denied == requireAdmin(req)
        id == req.params.id
    IN  IF denied # <<>> THEN Reply(denied[1])
        ELSE IF ~ValidObjectId(id) THEN Reply(ErrorJson(400, "BAD_ID"))
        ELSE IF ~adminEditSchemaOk(req.body) THEN Reply(ErrorJson(400, "VALIDATION_ERROR"))
        ELSE IF id \notin DOMAIN feedback THEN Reply(ErrorJson(404, "NOT_FOUND"))
        ELSE LET data == adminEditSchemaData(req.body)
                 updated == [f \in DOMAIN feedback[id] \cup DOMAIN data |->
                                IF f \in DOMAIN data THEN data[f] ELSE feedback[id][f]]
             IN  Out(comments, [feedback EXCEPT ![id] = updated], nextId,
                     Json(200, [ok |-> TRUE, data |-> [feedback |-> updated]]))

\* router.delete("/:id")
FeedbackDelete(req) ==
    LET denied == requireAdmin(req)
        id == req.params.id
    IN  IF denied # <<>> THEN Reply(denied[1])
        ELSE IF ~ValidObjectId(id) THEN Reply(ErrorJson(400, "BAD_ID"))
        ELSE IF id \notin DOMAIN feedback THEN Reply(ErrorJson(404, "NOT_FOUND"))
        ELSE Out(comments, Removed(feedback, id), nextId, Json(200, [ok |-> TRUE]))

(***************************************************************************)
(* Requests the clients send.                                              *)
(***************************************************************************)
NoFields == <<>>

Hello == <<"h", "e", "l", "l", "o">>
HelloPadded == <<"h", "e", "l", "l", "o", " ">>
OneLetterPadded == <<"a", " ", " ", " ", " ">>
TooShort == <<"h", "i">>
K1 == <<"k", "1">>
K2 == <<"k", "2">>
K1Padded == <<" ", "k", "1">>
Blank == <<" ">>
Filled == <<"x">>

Request(headers, params, query, body) ==
    [headers |-> headers, params |-> params, query |-> query, body |-> body]

\* x-admin-key / x-service-key as a client may send it.
KeyHeaders(name, key) ==
    {NoFields, (name :> key), (name :> "wrong")}

\* A request of a /:id/self route.
SelfEditRequest(id, b) == Request(NoFields, [id |-> id], NoFields, b)

\* The same, without the header that carries the right key.
BadKeyHeaders(name) == {NoFields, (name :> "wrong")}

\* Ids a client may name: no ObjectId (0), every id handed out, one never handed out.
RequestIds == 0..(nextId + 1)

GoodComment(k, b) == [normalizedKey |-> k, type |-> "general", body |-> b]

CommentBodies ==
    {GoodComment(k, Hello) : k \in {K1, K2}}
    \cup {With(GoodComment(K1, Hello), "authorEmail", "a@x.io")}
    \cup {GoodComment(K1Padded, HelloPadded), GoodComment(K1, OneLetterPadded),
          GoodComment(K1, TooShort), [normalizedKey |-> K1, body |-> Hello],
          With(GoodComment(K1, Hello), "authorEmail", "nobody")}
    \cup {With(GoodComment(K2, Hello), "hp", h) : h \in {<<>>, Blank, Filled}}
    \cup {With(With(GoodComment(K1, Hello), "authorEmail", "a@x.io"), "hp", Filled)}
    \cup {With(GoodComment(K2, Hello), "authorId", "u1")}

CommentsPostRequests == {Request(NoFields, NoFields, NoFields, b) : b \in CommentBodies}

CommentsGetSlugRequests ==
    {Request(NoFields, [slug |-> k], NoFields, NoFields) : k \in {K1, K2, K1Padded, Blank}}

AdminListQueries ==
    {NoFields, [status |-> "pending"], [status |-> ""], [slug |-> K1Padded],
     [status |-> "visible", slug |-> K2],
     [limit |-> <<0>>], [limit |-> <<1>>], [limit |-> <<600>>], [limit |-> <<>>]}

CommentsAdminListRequests ==
    {Request(("x-admin-key" :> "adm"), NoFields, q, NoFields) : q \in AdminListQueries}
    \cup {Request(h, NoFields, q, NoFields) :
            h \in BadKeyHeaders("x-admin-key"), q \in {NoFields, [status |-> "pending"]}}

AdminIdRequests(key) ==
    {Request(h, [id |-> i], NoFields, NoFields) : h \in KeyHeaders("x-admin-key", key), i \in RequestIds}

\* editKey values a client may present: none, empty, a non-string, every
\* key handed out so far, a digest, a guess.
PresentedKeys ==
    {"", NotAString, "guess", sha256Hex(randomBytesHex(1))}
    \cup {randomBytesHex(n) : n \in 1..nextId}

SelfEditBodies ==
    {[body |-> Hello], [body |-> TooShort, editKey |-> randomBytesHex(1)],
     [body |-> OneLetterPadded, editKey |-> randomBytesHex(1)]}
    \cup {[body |-> HelloPadded, editKey |-> k] : k \in PresentedKeys}

CommentsPatchSelfRequests ==
    {Request(NoFields, [id |-> i], NoFields, b) : i \in RequestIds, b \in SelfEditBodies}

SelfDeleteBodies == {NoFields} \cup {[editKey |-> k] : k \in PresentedKeys}

CommentsDeleteSelfRequests ==
    {Request(NoFields, [id |-> i], NoFields, b) : i \in RequestIds, b \in SelfDeleteBodies}

ClaimBodies ==
    {[userId |-> u, email |-> e] : u \in UserIds, e \in Emails}
    \cup {[userId |-> "", email |-> "a@x.io"], [userId |-> "u1", email |-> ""],
          [userId |-> "not-an-objectid", email |-> "a@x.io"],
          [userId |-> "u1"], [email |-> "a@x.io"],
          [userId |-> "u2", email |-> PaddedEmail]}

ClaimByEmailRequests ==
    {Request(("x-service-key" :> "svc"), NoFields, NoFields, b) : b \in ClaimBodies}
    \cup {Request(h, NoFields, NoFields, [userId |-> u, email |-> "a@x.io"]) :
            h \in BadKeyHeaders("x-service-key"), u \in UserIds}

GoodFeedback == [category |-> "bug", message |-> Hello, email |-> "a@x.io"]

FeedbackBodies ==
    {GoodFeedback,
     [category |-> "bug", message |-> HelloPadded, email |-> "a@x.io"],
     [category |-> "bug", message |-> OneLetterPadded],
     [category |-> "bug", message |-> TooShort],
     [category |-> "praise", message |-> Hello],
     With(GoodFeedback, "status", "closed")}
    \cup {With(GoodFeedback, "hp", h) : h \in {<<>>, Blank, Filled}}

FeedbackPostRequests ==
    {Request(("user-agent" :> "ua/1"), NoFields, NoFields, b) : b \in FeedbackBodies}
    \cup {Request(NoFields, NoFields, NoFields, With(GoodFeedback, "hp", Filled))}

FeedbackPublicQueries ==
    {NoFields, [mode |-> "recent"], [mode |-> "all"],
     [status |-> <<"closed">>], [mode |-> "recent", status |-> <<"closed">>],
     [mode |-> "all", status |-> <<"closed", "new">>], [status |-> <<"bogus">>],
     [mode |-> "all", status |-> <<"triaged">>],
     [limit |-> <<0>>], [limit |-> <<1>>], [limit |-> <<>>], [limit |-> <<900>>]}

FeedbackGetPublicRequests ==
    {Request(NoFields, NoFields, q, NoFields) : q \in FeedbackPublicQueries}

FeedbackAdminQueries ==
    {NoFields, [status |-> "new"], [status |-> "all"],
     [limit |-> <<0>>], [limit |-> <<>>], [limit |-> <<900>>]}

FeedbackAdminListRequests ==
    {Request(("x-admin-key" :> "fadm"), NoFields, q, NoFields) : q \in FeedbackAdminQueries}
    \cup {Request(h, NoFields, NoFields, NoFields) : h \in BadKeyHeaders("x-admin-key")}

Howdy == <<"h", "o", "w", " ", " ", "d", "y">>
FiveBlanks == <<" ", " ", " ", " ", " ">>

FeedbackPatchBodies ==
    {NoFields, [message |-> Howdy], [message |-> FiveBlanks], [message |-> TooShort],
     [status |-> "bogus"], [message |-> Howdy, status |-> "closed"]}
    \cup {[status |-> st] : st \in FeedbackStatuses}

FeedbackPatchRequests ==
    {Request(("x-admin-key" :> "fadm"), [id |-> i], NoFields, b) :
        i \in RequestIds, b \in FeedbackPatchBodies}
    \cup {Request(h, [id |-> i], NoFields, b) :
            h \in BadKeyHeaders("x-admin-key"), i \in RequestIds,
            b \in {NoFields, [status |-> "closed"], [message |-> Howdy]}}

(***************************************************************************)
(* The service.                                                            *)
(***************************************************************************)
\* The environments the service is started in: the operator's keys all set
\* or all left unset (each handler reads one key only), auto-visibility on
\* or off.
\* Clients whose requests may overlap in time.
Clients == {"c1", "c2"}

\* No handler of the client is suspended.
Idle == [op |-> "idle"]

Environments ==
    {<<auto, "adm", "svc", "fadm">> : auto \in BOOLEAN}
    \cup {<<auto, "", "", "">> : auto \in BOOLEAN}

Init ==
    /\ \E e \in Environments :
          /\ AUTO_VISIBLE = e[1]
          /\ ADMIN_KEY = e[2]
          /\ SERVICE_KEY = e[3]
          /\ FEEDBACK_ADMIN_KEY = e[4]
    /\ comments = NoFields
    /\ feedback = NoFields
    /\ nextId = 0
    /\ inflight = [c \in Clients |-> Idle]

\* One request served: the handler's writes reach the store (its response
\* goes to the client and leaves no state behind).
Serve(out) ==
    /\ out.nextId <= MaxRecords
    /\ comments' = out.comments
    /\ feedback' = out.feedback
    /\ nextId' = out.nextId
    /\ UNCHANGED <<env, inflight>>

PostComment == \E req \in CommentsPostRequests : Serve(CommentsPost(req))

GetSlug == \E req \in CommentsGetSlugRequests : Serve(CommentsGetSlug(req))

AdminList ==
    \E req \in CommentsAdminListRequests :
        Serve(CommentsAdminList(req))

PatchVisible ==
    \E req \in AdminIdRequests("adm") : Serve(CommentsPatchVisible(req))

PatchHide ==
    \E req \in AdminIdRequests("adm") : Serve(CommentsPatchHide(req))

DeleteComment ==
    \E req \in AdminIdRequests("adm") : Serve(CommentsDelete(req))

PatchSelf ==
    \E req \in CommentsPatchSelfRequests :
        Serve(CommentsPatchSelf(req))

DeleteSelf ==
    \E req \in CommentsDeleteSelfRequests :
        Serve(CommentsDeleteSelf(req))

Claim ==
    \E req \in ClaimByEmailRequests :
        Serve(ClaimByEmail(req))

PostFeedback == \E req \in FeedbackPostRequests : Serve(FeedbackPost(req))

GetPublicFeedback ==
    \E req \in FeedbackGetPublicRequests : Serve(FeedbackGetPublic(req))

AdminListFeedback ==
    \E req \in FeedbackAdminListRequests :
        Serve(FeedbackAdminList(req))

PatchFeedback ==
    \E req \in FeedbackPatchRequests : Serve(FeedbackPatch(req))

DeleteFeedback ==
    \E req \in AdminIdRequests("fadm") : Serve(FeedbackDelete(req))

Next ==
    \/ PostComment
    \/ GetSlug
    \/ AdminList
    \/ PatchVisible
    \/ PatchHide
    \/ DeleteComment
    \/ PatchSelf
    \/ DeleteSelf
    \/ Claim
    \/ PostFeedback
    \/ GetPublicFeedback
    \/ AdminListFeedback
    \/ PatchFeedback
    \/ DeleteFeedback

Spec == Init /\ [][Next]_vars

(***************************************************************************)
(* The comments service with overlapping requests.                         *)
(***************************************************************************)
\* Self-service requests that pass validation and reach findById, each
\* carrying the secret its comment's creation answered with.
RaceSelfRequests ==
    {SelfEditRequest(id, [body |-> HelloPadded, editKey |-> randomBytesHex(id)]) :
        id \in 1..nextId}

RaceClaimRequests ==
    {Request(("x-service-key" :> "svc"), NoFields, NoFields,
             [userId |-> u, email |-> "a@x.io"]) : u \in UserIds}

\* Creations: a comment with an e-mail address and one without.
RacePostRequests ==
    {Request(NoFields, NoFields, NoFields, b) :
        b \in {GoodComment(K1, Hello), With(GoodComment(K1, Hello), "authorEmail", "a@x.io"),
               With(GoodComment(K1, Hello), "authorId", "u2")}}

\* Moderator requests that carry the configured key.
RaceAdminRequests ==
    {Request(("x-admin-key" :> "adm"), [id |-> i], NoFields, NoFields) : i \in 1..nextId}

\* The service runs with its keys configured and auto-visibility off.
RaceInit ==
    /\ AUTO_VISIBLE = FALSE
    /\ ADMIN_KEY = "adm"
    /\ SERVICE_KEY = "svc"
    /\ FEEDBACK_ADMIN_KEY = "fadm"
    /\ comments = NoFields
    /\ feedback = NoFields
    /\ nextId = 0
    /\ inflight = [c \in Clients |-> Idle]

RaceCreate == \E req \in RacePostRequests : Serve(CommentsPost(req))

RaceSetVisible == \E req \in RaceAdminRequests : Serve(CommentsPatchVisible(req))

RaceDelete == \E req \in RaceAdminRequests : Serve(CommentsDelete(req))

\* The client's handler runs up to its first await and is suspended there.
Suspend(c, e) ==
    /\ inflight[c] = Idle
    /\ inflight' = [inflight EXCEPT ![c] = e]
    /\ UNCHANGED <<env, comments, feedback, nextId>>

\* The client's suspended handler runs to its response.
Resume(c, out) ==
    /\ comments' = out.comments
    /\ feedback' = out.feedback
    /\ nextId' = out.nextId
    /\ inflight' = [inflight EXCEPT ![c] = Idle]
    /\ UNCHANGED env

SelfEditLoad ==
    \E c \in Clients, req \in RaceSelfRequests :
        selfEditSchemaOk(req.body) /\ Suspend(c, SelfEditLoaded(req))

SelfEditFinish ==
    \E c \in Clients :
        inflight[c].op = "selfEdit" /\ Resume(c, SelfEditResume(inflight[c]))

SelfDeleteLoad ==
    \E c \in Clients, req \in RaceSelfRequests :
        selfDeleteSchemaOk(req.body) /\ Suspend(c, SelfDeleteLoaded(req))

SelfDeleteFinish ==
    \E c \in Clients :
        inflight[c].op = "selfDelete" /\ Resume(c, SelfDeleteResume(inflight[c]))

ClaimStart ==
    \E c \in Clients, req \in RaceClaimRequests :
        /\ ClaimByEmail(req).res.status = 200
        /\ Suspend(c, ClaimStarted(req))

ClaimDocument ==
    \E c \in Clients :
        /\ inflight[c].op = "claim"
        /\ \E id \in {i \in DOMAIN comments : i \in inflight[c].todo \/ i > inflight[c].upto} :
            /\ comments' = ClaimVisit(inflight[c], id)
            /\ inflight' = [inflight EXCEPT ![c].todo = @ \ {id}]
        /\ UNCHANGED <<env, feedback, nextId>>

ClaimFinish ==
    \E c \in Clients :
        /\ inflight[c].op = "claim"
        /\ inflight[c].todo \cap DOMAIN comments = {}
        /\ inflight' = [inflight EXCEPT ![c] = Idle]
        /\ UNCHANGED <<env, comments, feedback, nextId>>

RaceNext ==
    \/ RaceCreate
    \/ RaceSetVisible
    \/ RaceDelete
    \/ SelfEditLoad
    \/ SelfEditFinish
    \/ SelfDeleteLoad
    \/ SelfDeleteFinish
    \/ ClaimStart
    \/ ClaimDocument
    \/ ClaimFinish

RaceSpec == RaceInit /\ [][RaceNext]_vars

(***************************************************************************)
(* Vocabulary of the properties.                                           *)
(***************************************************************************)
\* The secret the creation of comment id answered with.
IssuedKey(id) == randomBytesHex(id)

\* Every secret any creation has answered with so far.
IssuedKeys == {IssuedKey(n) : n \in 1..nextId}

\* The string-valued fields of a document or of a response's data.
StringsOf(d) ==
    {d[f] : f \in DOMAIN d \ {"_id", "id", "createdAt", "normalizedKey", "body", "message",
                              "matched", "modified", "comments", "items", "comment",
                              "feedback"}}

\* The documents a response carries.
DocsIn(res) ==
    IF ~Has(res.json, "data") THEN {}
    ELSE LET data == res.json.data
         IN  (IF Has(data, "comments") THEN {data.comments[i] : i \in 1..Len(data.comments)} ELSE {})
             \cup (IF Has(data, "items") THEN {data.items[i] : i \in 1..Len(data.items)} ELSE {})
             \cup (IF Has(data, "comment") THEN {data.comment} ELSE {})
             \cup (IF Has(data, "feedback") THEN {data.feedback} ELSE {})

\* Every string a response carries, at any depth.
StringsIn(res) ==
    (IF Has(res.json, "data") THEN StringsOf(res.json.data) ELSE {})
    \cup UNION {StringsOf(d) : d \in DocsIn(res)}

\* The ids of the comments the public listing of key k shows.
ListedIds(k) ==
    LET res == CommentsGetSlug(Request(NoFields, [slug |-> k], NoFields, NoFields)).res
    IN  {d._id : d \in DocsIn(res)}

\* Every response the comments and internal routers give in this state to
\* a request that is no creation.
LaterResponses ==
    {CommentsGetSlug(req).res : req \in CommentsGetSlugRequests}
    \cup {CommentsAdminList(req).res : req \in CommentsAdminListRequests}
    \cup {CommentsPatchVisible(req).res : req \in AdminIdRequests("adm")}
    \cup {CommentsPatchHide(req).res : req \in AdminIdRequests("adm")}
    \cup {CommentsDelete(req).res : req \in AdminIdRequests("adm")}
    \cup {CommentsPatchSelf(req).res : req \in CommentsPatchSelfRequests}
    \cup {CommentsDeleteSelf(req).res : req \in CommentsDeleteSelfRequests}
    \cup {ClaimByEmail(req).res : req \in ClaimByEmailRequests}

(***************************************************************************)
(* C1.  In every reachable state and for every key k, the public listing   *)
(* of k holds only comments that exist in the store, have normalizedKey k  *)
(* and have status visible; no pending or hidden comment is listed.        *)
(***************************************************************************)
C1_PublicListingOnlyVisible ==
    \A req \in CommentsGetSlugRequests :
        LET res == CommentsGetSlug(req).res
        IN  res.status = 200 =>
                \A d \in DocsIn(res) :
                    /\ d._id \in DOMAIN comments
                    /\ comments[d._id].normalizedKey = Trim(req.params.slug)
                    /\ comments[d._id].status = "visible"
                    /\ d.status = "visible"

C1_Witness ==
    \E i, j \in DOMAIN comments :
        /\ comments[i].status = "visible"
        /\ comments[j].status # "visible"
        /\ comments[i].normalizedKey = comments[j].normalizedKey
        /\ ListedIds(comments[i].normalizedKey) = {i}

(***************************************************************************)
(* C2.  With auto-visibility off: in every state a comment is in the       *)
(* public listing of its key exactly when its status is visible, so a      *)
(* pending comment is never listed; a comment is pending when it is        *)
(* created; and a comment that was not visible becomes visible only in a   *)
(* step that is a successful moderator set-visible on it, after which it   *)
(* is listed.                                                              *)
(***************************************************************************)
\* This step is a successful moderator PATCH /:id/visible on comment id.
IsSetVisibleStep(id) ==
    \E req \in AdminIdRequests("adm") :
        /\ req.params.id = id
        /\ CommentsPatchVisible(req).res.status = 200
        /\ comments' = CommentsPatchVisible(req).comments

C3_SecretAuthorizesSelfService ==
    \A id \in DOMAIN comments :
        \A b \in {NoFields} \cup {[editKey |-> k] : k \in PresentedKeys \ {NotAString}} :
            LET edit == CommentsPatchSelf(SelfEditRequest(id, With(b, "body", Hello)))
                del == CommentsDeleteSelf(SelfEditRequest(id, b))
                proves == Has(b, "editKey") /\ sha256Hex(b.editKey) = sha256Hex(IssuedKey(id))
            IN  IF proves
                THEN /\ edit.res.status = 200
                     /\ del.res.status = 200 /\ id \notin DOMAIN del.comments
                ELSE /\ edit.res.status = 403 /\ edit.comments = comments
                     /\ del.res.status = 403 /\ del.comments = comments

(***************************************************************************)
(* C4.  For a comment created with secret s: self-delete with a wrong      *)
(* secret answers Forbidden and the record stays; self-delete with s       *)
(* answers success and removes the record; self-delete with s of a         *)
(* removed record answers NotFound.                                        *)
(***************************************************************************)
C4_SelfDeleteSequence ==
    /\ \A id \in DOMAIN comments :
        LET wrong == CommentsDeleteSelf(SelfEditRequest(id, [editKey |-> "guess"]))
            right == CommentsDeleteSelf(SelfEditRequest(id, [editKey |-> IssuedKey(id)]))
        IN  /\ wrong.res.status = 403 /\ id \in DOMAIN wrong.comments
            /\ right.res.status = 200 /\ id \notin DOMAIN right.comments
    /\ \A id \in (1..nextId) \ DOMAIN comments :
        CommentsDeleteSelf(SelfEditRequest(id, [editKey |-> IssuedKey(id)])).res.status = 404

(***************************************************************************)
(* C5.  As stated: a public creation request (comment or feedback) whose   *)
(* decoy field is non-empty never adds a record.                           *)
(***************************************************************************)
StoreUnchanged(out) ==
    out.comments = comments /\ out.feedback = feedback /\ out.nextId = nextId

C5_Original_NonEmptyDecoyStoresNothing ==
    /\ \A req \in CommentsPostRequests :
        (Has(req.body, "hp") /\ req.body.hp # <<>>) => StoreUnchanged(CommentsPost(req))
    /\ \A req \in FeedbackPostRequests :
        (Has(req.body, "hp") /\ req.body.hp # <<>>) => StoreUnchanged(FeedbackPost(req))

(***************************************************************************)
(* C5, amended.  A public creation request (comment or feedback) whose     *)
(* decoy field holds anything but white space never adds a record: the     *)
(* store is the same before and after, and the moderator listings show     *)
(* the same items.                                                         *)
(***************************************************************************)
C5_DecoyStoresNothing ==
    /\ \A req \in CommentsPostRequests :
        (Has(req.body, "hp") /\ Trim(req.body.hp) # <<>>) =>
            StoreUnchanged(CommentsPost(req))
    /\ \A req \in FeedbackPostRequests :
        (Has(req.body, "hp") /\ Trim(req.body.hp) # <<>>) =>
            StoreUnchanged(FeedbackPost(req))

C5_Witness ==
    /\ comments # NoFields /\ feedback # NoFields
    /\ \E req \in CommentsPostRequests :
        /\ Has(req.body, "hp") /\ Trim(req.body.hp) # <<>>
        /\ CommentsPost(req).res.status = 200
    /\ \E req \in FeedbackPostRequests :
        /\ Has(req.body, "hp") /\ Trim(req.body.hp) # <<>>
        /\ FeedbackPost(req).res.status = 200

(***************************************************************************)
(* C6.  The response to a comment creation request with a filled decoy     *)
(* field has the same fields as the response to a genuine successful       *)
(* creation.                                                               *)
(***************************************************************************)
C6_DecoyResponseLooksGenuine ==
    \A spam, genuine \in CommentsPostRequests :
        (/\ createCommentSchemaOk(spam.body)
         /\ HoneypotTripped(spam.body)
         /\ ~Has(genuine.body, "hp")
         /\ CommentsPost(genuine).nextId = nextId + 1)
        => Shape(CommentsPost(spam).res) = Shape(CommentsPost(genuine).res)

(***************************************************************************)
(* C7.  The secret of a created comment is in the answer to its creation   *)
(* and nowhere else: a creation answers with a secret no earlier creation  *)
(* answered with; no stored document holds a secret handed out; and no     *)
(* answer of a later operation (public listing, moderator listing,         *)
(* set-visible, hide, delete, self-edit, self-delete, claim-by-email, or   *)
(* another creation) holds a secret handed out before it.                  *)
(***************************************************************************)
C7_SecretOnlyInCreateResponse ==
    /\ \A req \in CommentsPostRequests :
        LET out == CommentsPost(req)
        IN  /\ StringsIn(out.res) \cap IssuedKeys = {}
            /\ out.nextId = nextId + 1 =>
                /\ Has(out.res.json, "data") /\ Has(out.res.json.data, "editKey")
                /\ out.res.json.data.editKey = IssuedKey(out.res.json.data.id)
                /\ out.res.json.data.id \notin DOMAIN comments
                /\ \A d \in Docs(out.comments) :
                     StringsOf(d) \cap (IssuedKeys \cup {out.res.json.data.editKey}) = {}
    /\ \A d \in Docs(comments) : StringsOf(d) \cap IssuedKeys = {}
    /\ \A res \in LaterResponses : StringsIn(res) \cap IssuedKeys = {}

C7_Witness ==
    \E id \in DOMAIN comments :
        /\ SelfEditRequest(id, [body |-> HelloPadded, editKey |-> IssuedKey(id)])
               \in CommentsPatchSelfRequests
        /\ \E req \in CommentsAdminListRequests :
               id \in {d._id : d \in DocsIn(CommentsAdminList(req).res)}
        /\ \E req \in CommentsPostRequests : CommentsPost(req).nextId = nextId + 1

(***************************************************************************)
(* C8.  No answer holds a document with an editKeyHash field or the digest *)
(* of a secret handed out; outside the moderator listing no answer holds   *)
(* an authorEmail field; the moderator listing shows authorEmail on        *)
(* exactly the items whose stored document has one.                        *)
(***************************************************************************)
\* The digests of the secrets handed out so far.
IssuedDigests == {sha256Hex(k) : k \in IssuedKeys}

\* An answer holds neither the digest nor, unless email is allowed, an e-mail address.
Withholds(res, emailAllowed) ==
    /\ StringsIn(res) \cap IssuedDigests = {}
    /\ \A d \in DocsIn(res) :
        /\ ~Has(d, "editKeyHash")
        /\ emailAllowed \/ ~Has(d, "authorEmail")
    /\ Has(res.json, "data") =>
        ~Has(res.json.data, "editKeyHash") /\ ~Has(res.json.data, "authorEmail")

C8_DigestAndEmailWithheld ==
    /\ \A res \in LaterResponses \ {CommentsAdminList(req).res : req \in CommentsAdminListRequests} :
        Withholds(res, FALSE)
    /\ \A req \in CommentsPostRequests :
        LET out == CommentsPost(req)
        IN  /\ Withholds(out.res, FALSE)
            /\ StringsIn(out.res) \cap {sha256Hex(IssuedKey(nextId + 1))} = {}
    /\ \A req \in CommentsAdminListRequests :
        LET res == CommentsAdminList(req).res
        IN  /\ Withholds(res, TRUE)
            /\ \A d \in DocsIn(res) :
                /\ d._id \in DOMAIN comments
                /\ Has(d, "authorEmail") <=> Has(comments[d._id], "authorEmail")
                /\ Has(d, "authorEmail") => d.authorEmail = comments[d._id].authorEmail

C8_Witness ==
    \E id \in DOMAIN comments :
        /\ Has(comments[id], "authorEmail")
        /\ id \in ListedIds(comments[id].normalizedKey)
        /\ \E req \in AdminIdRequests("adm") :
            /\ req.params.id = id
            /\ CommentsPatchHide(req).res.status = 200
        /\ \E req \in CommentsAdminListRequests :
            \E d \in DocsIn(CommentsAdminList(req).res) :
                d._id = id /\ Has(d, "authorEmail")

(***************************************************************************)
(* C9.  In every state, a set-visible, hide, delete or moderator-listing   *)
(* request that does not carry the configured moderator key leaves the     *)
(* store as it is and answers without data, and no creation, self-edit,    *)
(* self-delete, claim-by-email, public listing or feedback request         *)
(* changes the status of an existing comment.  In every step, the status   *)
(* of a comment that exists before and after changes only if the step is   *)
(* a set-visible or hide on that comment carrying the configured key.      *)
(***************************************************************************)
\* The request carries the configured moderator key.
Authorized(req) ==
    ADMIN_KEY # "" /\ ~HeaderDiffers(req, "x-admin-key", ADMIN_KEY)

\* The handler's result leaves every existing comment's status as it is.
KeepsStatuses(out) ==
    \A id \in DOMAIN comments \cap DOMAIN out.comments :
        out.comments[id].status = comments[id].status

\* This step is a set-visible or hide on comment id that carries the key.
IsAuthorizedSetStatusStep(id) ==
    \E req \in AdminIdRequests("adm") :
        /\ Authorized(req)
        /\ req.params.id = id
        /\ \E out \in {CommentsPatchVisible(req), CommentsPatchHide(req)} :
            out.res.status = 200 /\ comments' = out.comments

C9_StatusOnlyByModerator ==
    /\ [](/\ \A req \in AdminIdRequests("adm") :
               ~Authorized(req) =>
                   \A out \in {CommentsPatchVisible(req), CommentsPatchHide(req),
                               CommentsDelete(req)} :
                       StoreUnchanged(out) /\ ~Has(out.res.json, "data")
          /\ \A req \in CommentsAdminListRequests :
               ~Authorized(req) =>
                   LET out == CommentsAdminList(req)
                   IN  StoreUnchanged(out) /\ ~Has(out.res.json, "data")
          /\ \A req \in CommentsPostRequests : KeepsStatuses(CommentsPost(req))
          /\ \A req \in CommentsPatchSelfRequests : KeepsStatuses(CommentsPatchSelf(req))
          /\ \A req \in CommentsDeleteSelfRequests : KeepsStatuses(CommentsDeleteSelf(req))
          /\ \A req \in ClaimByEmailRequests : KeepsStatuses(ClaimByEmail(req))
          /\ \A req \in CommentsGetSlugRequests : KeepsStatuses(CommentsGetSlug(req))
          /\ \A req \in FeedbackPostRequests : KeepsStatuses(FeedbackPost(req))
          /\ \A req \in FeedbackPatchRequests : KeepsStatuses(FeedbackPatch(req)))
    /\ [][comments' # comments =>
            \A id \in DOMAIN comments \cap DOMAIN comments' :
                comments'[id].status # comments[id].status
                    => IsAuthorizedSetStatusStep(id)]_vars

C9_Witness ==
    /\ ADMIN_KEY # ""
    /\ \E id \in DOMAIN comments :
        /\ comments[id].status = "hidden"
        /\ Has(comments[id], "authorId")
        /\ \E req \in AdminIdRequests("adm") :
            /\ ~Authorized(req)
            /\ req.params.id = id
            /\ CommentsPatchVisible(req).res.status = 401

(***************************************************************************)
(* C10.  When the comments moderator key is not configured, the moderator  *)
(* listing, set-visible, hide and delete of comments answer 501            *)
(* NOT_CONFIGURED and leave the store as it is, whatever x-admin-key the   *)
(* request carries (none, an empty one, any value); the same holds for     *)
(* the feedback moderator listing, update and delete when the feedback     *)
(* moderator key is not configured.                                        *)
(***************************************************************************)
\* x-admin-key headers a client may try against a key that is not set.
AnyKeyHeaders ==
    {NoFields} \cup {("x-admin-key" :> k) : k \in {"", "wrong", "adm", "fadm"}}

\* The handler's result is the not-configured answer and no write.
IsNotConfigured(out) ==
    /\ out.res = ErrorJson(501, "NOT_CONFIGURED")
    /\ StoreUnchanged(out)

C10_NotConfigured ==
    \A h \in AnyKeyHeaders, i \in RequestIds :
        /\ ADMIN_KEY = "" =>
            /\ \A q \in AdminListQueries :
                IsNotConfigured(CommentsAdminList(Request(h, NoFields, q, NoFields)))
            /\ \A out \in {CommentsPatchVisible(Request(h, [id |-> i], NoFields, NoFields)),
                           CommentsPatchHide(Request(h, [id |-> i], NoFields, NoFields)),
                           CommentsDelete(Request(h, [id |-> i], NoFields, NoFields))} :
                IsNotConfigured(out)
        /\ FEEDBACK_ADMIN_KEY = "" =>
            /\ \A q \in FeedbackAdminQueries :
                IsNotConfigured(FeedbackAdminList(Request(h, NoFields, q, NoFields)))
            /\ \A b \in FeedbackPatchBodies :
                IsNotConfigured(FeedbackPatch(Request(h, [id |-> i], NoFields, b)))
            /\ IsNotConfigured(FeedbackDelete(Request(h, [id |-> i], NoFields, NoFields)))

C10_Witness ==
    /\ ADMIN_KEY = "" /\ FEEDBACK_ADMIN_KEY = ""
    /\ comments # NoFields /\ feedback # NoFields
    /\ \E h \in AnyKeyHeaders, i \in DOMAIN comments, j \in DOMAIN feedback :
        /\ Has(h, "x-admin-key")
        /\ CommentsDelete(Request(h, [id |-> i], NoFields, NoFields)).res.status = 501
        /\ FeedbackDelete(Request(h, [id |-> j], NoFields, NoFields)).res.status = 501

(***************************************************************************)
(* C11.  As stated: when the service key is not configured, claim-by-email *)
(* answers 501 NOT_CONFIGURED, which is not the answer it gives to a wrong *)
(* key, and leaves the store as it is, whatever x-service-key the request  *)
(* carries.                                                                *)
(***************************************************************************)
\* x-service-key headers a client may try.
AnyServiceKeyHeaders ==
    {NoFields} \cup {("x-service-key" :> k) : k \in {"", "wrong", "svc"}}

C11_ClaimNotConfigured ==
    SERVICE_KEY = "" =>
        \A h \in AnyServiceKeyHeaders, b \in ClaimBodies :
            LET out == ClaimByEmail(Request(h, NoFields, NoFields, b))
            IN  /\ out.res = ErrorJson(501, "NOT_CONFIGURED")
                /\ out.res # ErrorJson(401, "UNAUTHORIZED")
                /\ StoreUnchanged(out)

\* The comments a claim of address e is to update: no authorId, authorEmail e.
Claimable(e) ==
    {id \in DOMAIN comments :
        /\ ~Has(comments[id], "authorId")
        /\ Has(comments[id], "authorEmail")
        /\ comments[id].authorEmail = e}

\* The handler's result sets authorId u on the comments of hit, changes
\* nothing else, and answers with both counts equal to the size of hit.
ClaimsExactly(out, u, hit) ==
    /\ DOMAIN out.comments = DOMAIN comments
    /\ \A id \in hit : out.comments[id] = With(comments[id], "authorId", u)
    /\ \A id \in DOMAIN comments \ hit : out.comments[id] = comments[id]
    /\ out.feedback = feedback /\ out.nextId = nextId
    /\ out.res.json.data.matched = Cardinality(hit)
    /\ out.res.json.data.modified = Cardinality(hit)

NothingClaimed == Json(200, [ok |-> TRUE, data |-> [matched |-> 0, modified |-> 0]])

C13_ClaimIdempotent ==
    /\ [](\A req \in ClaimByEmailRequests :
            LET out == ClaimByEmail(req)
            IN  (out.res.status = 200 /\ Claimable(CastEmail(req.body.email)) = {})
                    => out.res = NothingClaimed /\ StoreUnchanged(out))
    /\ [][comments' # comments =>
            \A req \in ClaimByEmailRequests :
                (ClaimByEmail(req).res.status = 200 /\ comments' = ClaimByEmail(req).comments)
                    => (ClaimByEmail(req).res = NothingClaimed
                        /\ StoreUnchanged(ClaimByEmail(req)))']_vars

C13_Witness ==
    \E id \in DOMAIN comments, req \in ClaimByEmailRequests :
        /\ Has(comments[id], "authorId") /\ Has(comments[id], "authorEmail")
        /\ req.body = [userId |-> comments[id].authorId, email |-> comments[id].authorEmail]
        /\ ClaimByEmail(req).res = NothingClaimed

(***************************************************************************)
(* C14.  With requests overlapping: a comment has no authorId when it is   *)
(* created, whatever the creation request carries; and in every step a     *)
(* comment that has an authorId keeps it, with the same value (a           *)
(* claim-by-email of another user that visits it does not write it).       *)
(***************************************************************************)
C14_AuthorIdSetOnce ==
    [][comments' # comments =>
        \A id \in DOMAIN comments' :
            /\ id \notin DOMAIN comments => ~Has(comments'[id], "authorId")
            /\ (id \in DOMAIN comments /\ Has(comments[id], "authorId")) =>
                /\ Has(comments'[id], "authorId")
                /\ comments'[id].authorId = comments[id].authorId]_vars

C14_Witness ==
    \E c \in Clients, id \in DOMAIN comments :
        /\ inflight[c].op = "claim"
        /\ id <= inflight[c].upto /\ id \notin inflight[c].todo
        /\ Has(comments[id], "authorId")
        /\ comments[id].authorId # inflight[c].req.body.userId
        /\ comments[id].authorEmail = inflight[c].req.body.email

(***************************************************************************)
(* C15.  With requests overlapping: an id that has been handed out and is  *)
(* not in the store is not in the store after any step, whatever handler   *)
(* was suspended when its comment was removed.                             *)
(***************************************************************************)
C15_DeleteIsTerminal ==
    [][comments' # comments =>
        \A id \in 1..nextId : id \notin DOMAIN comments => id \notin DOMAIN comments']_vars

C15_Witness ==
    \E c \in Clients :
        /\ inflight[c].op = "selfEdit"
        /\ inflight[c].comment # <<>>
        /\ inflight[c].req.params.id \notin DOMAIN comments
        /\ SelfEditResume(inflight[c]).comments = comments

(***************************************************************************)
(* C16.  As stated: a self-edit that loaded comment id before id was       *)
(* removed and resumes after it answers 404 NOT_FOUND, and so does a       *)
(* moderator set-visible on a removed id.                                  *)
(***************************************************************************)
C16_LateEditAnswersNotFound ==
    /\ \A c \in Clients :
        (inflight[c].op = "selfEdit" /\ inflight[c].req.params.id \notin DOMAIN comments)
            => SelfEditResume(inflight[c]).res = ErrorJson(404, "NOT_FOUND")
    /\ \A req \in RaceAdminRequests :
        req.params.id \notin DOMAIN comments
            => CommentsPatchVisible(req).res = ErrorJson(404, "NOT_FOUND")

(***************************************************************************)
(* C17.  What the moderator routes do with the id of a request that        *)
(* carries the configured key.                                             *)
(***************************************************************************)
\* The request with the configured moderator key for id.
Moderated(id) == Request(("x-admin-key" :> ADMIN_KEY), [id |-> id], NoFields, NoFields)

\* The three moderator routes answer the request with 404 and write nothing.
AllNotFound(req) ==
    \A out \in {CommentsPatchVisible(req), CommentsPatchHide(req), CommentsDelete(req)} :
        out.res = ErrorJson(404, "NOT_FOUND") /\ StoreUnchanged(out)

\* The delete route removes the comment of the request and nothing else.
DeleteRemoves(req) ==
    LET out == CommentsDelete(req)
    IN  /\ out.res = Json(200, [ok |-> TRUE])
        /\ out.comments = Removed(comments, req.params.id)
        /\ out.feedback = feedback /\ out.nextId = nextId

(***************************************************************************)
(* C17.  As stated: with the moderator key, set-visible, hide and delete   *)
(* of an id that is not in the store answer 404 NOT_FOUND and write        *)
(* nothing; delete of an id in the store removes it, whatever its status.  *)
(***************************************************************************)
C17_Original_AbsentIdNotFound ==
    ADMIN_KEY # "" =>
        \A id \in RequestIds :
            IF id \in DOMAIN comments THEN DeleteRemoves(Moderated(id))
            ELSE AllNotFound(Moderated(id))

(***************************************************************************)
(* C17, amended.  With the moderator key, set-visible, hide and delete of  *)
(* a well-formed id that is not in the store (never handed out, or         *)
(* removed) answer 404 NOT_FOUND and write nothing; of an id that is not   *)
(* well-formed they answer 500 SERVER_ERROR and write nothing; delete of   *)
(* an id in the store removes it, whatever its status.                     *)
(***************************************************************************)
C17_WellFormedAbsentIdNotFound ==
    ADMIN_KEY # "" =>
        \A id \in RequestIds :
            IF id \in DOMAIN comments THEN DeleteRemoves(Moderated(id))
            ELSE IF ValidObjectId(id) THEN AllNotFound(Moderated(id))
            ELSE \A out \in {CommentsPatchVisible(Moderated(id)),
                             CommentsPatchHide(Moderated(id)),
                             CommentsDelete(Moderated(id))} :
                    out.res = ServerError /\ StoreUnchanged(out)

C17_Witness ==
    /\ ADMIN_KEY # ""
    /\ \E gone \in (1..nextId) \ (DOMAIN comments \cup DOMAIN feedback) :
        CommentsDelete(Moderated(gone)).res.status = 404
    /\ \E id \in DOMAIN comments :
        /\ comments[id].status = "hidden"
        /\ CommentsDelete(Moderated(id)).res.status = 200

(***************************************************************************)
(* C18.  The statuses one moderator request can give a comment.            *)
(***************************************************************************)
\* The statuses comment id has after one successful set-status request
\* with the key.  What a set-status request writes does not depend on the
\* status it finds, so these are also the statuses that sequences of such
\* requests reach.
StatusTargets(id) ==
    {out.comments[id].status :
        out \in {o \in {CommentsPatchVisible(Moderated(id)), CommentsPatchHide(Moderated(id))} :
                    o.res.status = 200}}

(***************************************************************************)
(* C18.  As stated: with the moderator key, from each status of a comment  *)
(* each of the other two statuses is reached by moderator set-status       *)
(* requests on it.                                                         *)
(***************************************************************************)
C18_Original_EveryStatusReachable ==
    ADMIN_KEY # "" =>
        \A id \in DOMAIN comments :
            CommentStatuses \ {comments[id].status} \subseteq StatusTargets(id)

(***************************************************************************)
(* C18, amended.  With the moderator key, visible and hidden are reached   *)
(* from every status of a comment by one moderator request on it; pending  *)
(* is reached from no other status: in no step does a comment that is not  *)
(* pending become pending.                                                 *)
(***************************************************************************)
C18_VisibleAndHiddenReachable ==
    /\ [](ADMIN_KEY # "" =>
            \A id \in DOMAIN comments : StatusTargets(id) = {"visible", "hidden"})
    /\ [][comments' # comments =>
            \A id \in DOMAIN comments \cap DOMAIN comments' :
                comments'[id].status = "pending" => comments[id].status = "pending"]_vars

C18_Witness ==
    /\ ADMIN_KEY # ""
    /\ \E i, j \in DOMAIN comments :
        /\ comments[i].status = "hidden" /\ comments[j].status = "visible"
        /\ StatusTargets(i) = {"visible", "hidden"}
        /\ "pending" \notin StatusTargets(j)

(***************************************************************************)
(* C19.  As stated: for a secret that is not the comment's, self-edit and  *)
(* self-delete give the same answer for an id in the store and for a       *)
(* well-formed id that is not in the store.                                *)
(***************************************************************************)
C19_FailureHidesExistence ==
    \A here \in DOMAIN comments, gone \in (1..(nextId + 1)) \ DOMAIN comments :
        \A k \in {"guess", IssuedKey(gone)} \ {IssuedKey(here)} :
            /\ CommentsPatchSelf(SelfEditRequest(here, [body |-> Hello, editKey |-> k])).res
                 = CommentsPatchSelf(SelfEditRequest(gone, [body |-> Hello, editKey |-> k])).res
            /\ CommentsDeleteSelf(SelfEditRequest(here, [editKey |-> k])).res
                 = CommentsDeleteSelf(SelfEditRequest(gone, [editKey |-> k])).res

C21_NoDigestNoSelfService ==
    \A id \in DOMAIN comments :
        CommentGet(comments[id], "editKeyHash") = <<>> =>
            /\ \A b \in {NoFields} \cup {[editKey |-> k] : k \in PresentedKeys \ {NotAString}} :
                /\ CommentsPatchSelf(SelfEditRequest(id, With(b, "body", Howdy))).res
                     = ErrorJson(403, "FORBIDDEN")
                /\ StoreUnchanged(CommentsPatchSelf(SelfEditRequest(id, With(b, "body", Howdy))))
                /\ CommentsDeleteSelf(SelfEditRequest(id, b)).res = ErrorJson(403, "FORBIDDEN")
                /\ StoreUnchanged(CommentsDeleteSelf(SelfEditRequest(id, b)))
            /\ ADMIN_KEY # "" =>
                /\ StatusTargets(id) = {"visible", "hidden"}
                /\ DeleteRemoves(Moderated(id))

C21_Witness ==
    /\ ADMIN_KEY # ""
    /\ \E id \in DOMAIN comments :
        /\ CommentGet(comments[id], "editKeyHash") = <<>>
        /\ CommentsDeleteSelf(SelfEditRequest(id, [editKey |-> IssuedKey(id)])).res.status = 403
        /\ CommentsDelete(Moderated(id)).res.status = 200

(***************************************************************************)
(* C22.  With claim-by-email runs and creations overlapping:               *)
(*  - a comment is created without authorId and exactly as its request     *)
(*    gives it, whatever runs are under way;                               *)
(*  - a step that gives a comment an authorId is the visit of a run under  *)
(*    way for the comment's address, and it changes nothing else: that     *)
(*    comment gains the run's user as authorId, every other field and      *)
(*    every other comment stay, and no comment is lost;                    *)
(*  - the step that ends a run writes nothing, and at that step every      *)
(*    comment with the run's address that existed when the run started has *)
(*    an authorId;                                                         *)
(*  - at any time, a claim-by-email of address e handled on its own sets   *)
(*    its user on every comment with address e and no authorId, among      *)
(*    them the ones created after an earlier run's scan, and counts them.  *)
(***************************************************************************)
\* Some run under way visits comment id, which matches its filter.
VisitedByRun(id) ==
    \E c \in Clients :
        /\ inflight[c].op = "claim"
        /\ ClaimFilter(comments[id], inflight[c].req.body.email)
        /\ comments' = [comments EXCEPT ![id] = With(@, "authorId", inflight[c].req.body.userId)]

C22_ClaimSafeWithCreate ==
    /\ [](\A req \in RaceClaimRequests :
            ClaimsExactly(ClaimByEmail(req), req.body.userId, Claimable(req.body.email)))
    /\ [][comments' # comments =>
            /\ \A id \in DOMAIN comments' \ DOMAIN comments :
                /\ ~Has(comments'[id], "authorId")
                /\ \E req \in RacePostRequests : comments' = CommentsPost(req).comments
            /\ \A id \in DOMAIN comments \cap DOMAIN comments' :
                (Has(comments'[id], "authorId") /\ ~Has(comments[id], "authorId"))
                    => VisitedByRun(id)]_vars
    /\ [][inflight' # inflight =>
            \A c \in Clients :
                (inflight[c].op = "claim" /\ inflight'[c] = Idle) =>
                    /\ comments' = comments
                    /\ \A id \in DOMAIN comments :
                        (/\ id <= inflight[c].upto
                         /\ Has(comments[id], "authorEmail")
                         /\ comments[id].authorEmail = CastEmail(inflight[c].req.body.email))
                            => Has(comments[id], "authorId")]_vars

\* A run has visited the comments that existed when it started, has claimed
\* one of them, and a comment with its address created since has no
\* authorId; the same claim handled now sets it.
C22_Witness ==
    \E c \in Clients :
        /\ inflight[c].op = "claim"
        /\ inflight[c].todo \cap DOMAIN comments = {}
        /\ \E old, new \in DOMAIN comments :
            /\ old <= inflight[c].upto /\ new > inflight[c].upto
            /\ Has(comments[old], "authorId")
            /\ comments[old].authorId = inflight[c].req.body.userId
            /\ new \in Claimable(inflight[c].req.body.email)
            /\ ClaimByEmail(inflight[c].req).comments[new].authorId = inflight[c].req.body.userId

(***************************************************************************)
(* C24.  The statuses of the items the public feedback listing returns.    *)
(***************************************************************************)
\* The request GET /api/feedback/public with query q.
PublicFeedback(q) == Request(NoFields, NoFields, q, NoFields)

\* The statuses the mode of the query allows.
ModeStatuses(q) ==
    IF Has(q, "mode") /\ q.mode = "all" THEN {"new", "triaged", "closed"} ELSE {"new", "triaged"}

\* The names the ?status= list of the query holds.
AskedNames(q) == {q.status[i] : i \in 1..Len(q.status)}

\* The statuses of the items the listing returns for the query.
ReturnedStatuses(q) == {d.status : d \in DocsIn(FeedbackGetPublic(PublicFeedback(q)).res)}

(***************************************************************************)
(* C24.  As stated: the public feedback listing returns only items whose   *)
(* status the mode allows and, when a status list is given, the list       *)
(* names; so a list that shares no name with the mode's statuses returns   *)
(* no item.                                                                *)
(***************************************************************************)
C24_Original_ModeAndFilter ==
    \A q \in FeedbackPublicQueries :
        ReturnedStatuses(q) \subseteq
            (IF Has(q, "status") THEN ModeStatuses(q) \cap AskedNames(q) ELSE ModeStatuses(q))

(***************************************************************************)
(* C24, amended.  The public feedback listing returns only items whose     *)
(* status the mode allows (recent or no mode: new, triaged; all: new,      *)
(* triaged, closed); when the status list names at least one of new,       *)
(* triaged, closed, only items whose status the list names as well, so     *)
(* none when those names are not among the mode's; a status list that      *)
(* names none of the three is ignored, and the answer is the one without   *)
(* the list.                                                               *)
(***************************************************************************)
C24_ModeAndRecognisedFilter ==
    \A q \in FeedbackPublicQueries :
        /\ ReturnedStatuses(q) \subseteq ModeStatuses(q)
        /\ Has(q, "status") =>
            IF AskedNames(q) \cap FeedbackStatuses # {}
            THEN ReturnedStatuses(q) \subseteq ModeStatuses(q) \cap AskedNames(q)
            ELSE FeedbackGetPublic(PublicFeedback(q)).res
                   = FeedbackGetPublic(PublicFeedback(Without(q, {"status"}))).res

C24_Witness ==
    /\ \E i, j \in DOMAIN feedback : feedback[i].status = "closed" /\ feedback[j].status = "new"
    /\ ReturnedStatuses([mode |-> "recent", status |-> <<"closed">>]) = {}
    /\ ReturnedStatuses([mode |-> "all"]) = {"closed", "new"}
    /\ ReturnedStatuses([status |-> <<"bogus">>]) = {"new"}

(***************************************************************************)
(* C25.  As stated: every item of a public feedback listing has no field   *)
(* other than category, message, pageUrl, status, createdAt.               *)
(***************************************************************************)
C25_Original_OnlyFiveFields ==
    \A req \in FeedbackGetPublicRequests :
        \A d \in DocsIn(FeedbackGetPublic(req).res) :
            DOMAIN d \subseteq {"category", "message", "pageUrl", "status", "createdAt"}

(***************************************************************************)
(* C25, amended.  Every item of a public feedback listing has no field     *)
(* other than _id, category, message, pageUrl, status, createdAt, and it   *)
(* has _id; no item has an email or a userAgent field, and no e-mail       *)
(* address or user agent stored with a feedback appears anywhere in the    *)
(* answer.                                                                 *)
(***************************************************************************)
C25_PublicFeedbackFields ==
    \A req \in FeedbackGetPublicRequests :
        LET res == FeedbackGetPublic(req).res
        IN  /\ \A d \in DocsIn(res) :
                /\ DOMAIN d \subseteq {"_id", "category", "message", "pageUrl", "status", "createdAt"}
                /\ Has(d, "_id")
                /\ ~Has(d, "email") /\ ~Has(d, "userAgent")
            /\ \A f \in Docs(feedback) :
                /\ Has(f, "email") => f.email \notin StringsIn(res)
                /\ Has(f, "userAgent") => f.userAgent \notin StringsIn(res)

C25_Witness ==
    \E id \in DOMAIN feedback :
        /\ Has(feedback[id], "email") /\ Has(feedback[id], "userAgent")
        /\ \E d \in DocsIn(FeedbackGetPublic(PublicFeedback(NoFields)).res) :
            d._id = id /\ ~Has(d, "email") /\ ~Has(d, "userAgent")

(***************************************************************************)
(* C26.  What may change the status or the message of a feedback.          *)
(***************************************************************************)
\* The feedback request with the configured moderator key for id and body b.
FeedbackModerated(id, b) ==
    Request(("x-admin-key" :> FEEDBACK_ADMIN_KEY), [id |-> id], NoFields, b)

\* The step is an update request that the moderator check lets through.
IsAuthorizedFeedbackUpdate ==
    \E req \in FeedbackPatchRequests :
        requireAdmin(req) = <<>> /\ feedback' = FeedbackPatch(req).feedback

(***************************************************************************)
(* C26.  As stated, the part about missing records: with the moderator     *)
(* key, update (with a body that validates) and delete of an id that is    *)
(* not in the feedback store answer 404 NOT_FOUND and write nothing.       *)
(***************************************************************************)
C26_Original_AbsentFeedbackNotFound ==
    FEEDBACK_ADMIN_KEY # "" =>
        \A id \in RequestIds \ DOMAIN feedback :
            /\ FeedbackPatch(FeedbackModerated(id, [status |-> "closed"])).res
                 = ErrorJson(404, "NOT_FOUND")
            /\ FeedbackDelete(FeedbackModerated(id, NoFields)).res = ErrorJson(404, "NOT_FOUND")

(***************************************************************************)
(* C26, amended.  A feedback is created with status new, whatever the      *)
(* creation request carries; in every step the status and the message of   *)
(* a feedback change only if the step is an update request with the        *)
(* configured moderator key.  An update the moderator check refuses gets   *)
(* the refusal and writes nothing.  With the moderator key and a           *)
(* well-formed id: an update with neither message nor status answers 400   *)
(* VALIDATION_ERROR and writes nothing; an update with a body that         *)
(* validates, and a delete, of an id not in the feedback store answer 404  *)
(* NOT_FOUND and write nothing.  With the moderator key and an id that is  *)
(* not well-formed, update and delete answer 400 BAD_ID and write nothing. *)
(***************************************************************************)
C26_FeedbackOnlyByModerator ==
    /\ [](/\ \A req \in FeedbackPatchRequests :
                requireAdmin(req) # <<>> =>
                    /\ FeedbackPatch(req).res = requireAdmin(req)[1]
                    /\ StoreUnchanged(FeedbackPatch(req))
          /\ FEEDBACK_ADMIN_KEY # "" =>
                \A id \in RequestIds :
                    LET none == FeedbackPatch(FeedbackModerated(id, NoFields))
                        upd == FeedbackPatch(FeedbackModerated(id, [status |-> "closed"]))
                        del == FeedbackDelete(FeedbackModerated(id, NoFields))
                    IN  IF ~ValidObjectId(id)
                        THEN \A out \in {none, upd, del} :
                                out.res = ErrorJson(400, "BAD_ID") /\ StoreUnchanged(out)
                        ELSE /\ none.res = ErrorJson(400, "VALIDATION_ERROR")
                             /\ StoreUnchanged(none)
                             /\ id \notin DOMAIN feedback =>
                                    \A out \in {upd, del} :
                                        out.res = ErrorJson(404, "NOT_FOUND") /\ StoreUnchanged(out))
    /\ [][feedback' # feedback =>
            \A id \in DOMAIN feedback' :
                IF id \notin DOMAIN feedback THEN feedback'[id].status = "new"
                ELSE (\/ feedback'[id].status # feedback[id].status
                      \/ feedback'[id].message # feedback[id].message)
                        => IsAuthorizedFeedbackUpdate]_vars

C26_Witness ==
    /\ FEEDBACK_ADMIN_KEY # ""
    /\ \E id \in DOMAIN feedback :
        /\ feedback[id].status = "closed" /\ feedback[id].message = NormalizeText(Howdy)
        /\ FeedbackPatch(FeedbackModerated(id, NoFields)).res.status = 400
    /\ \E gone \in (1..nextId) \ (DOMAIN feedback \cup DOMAIN comments) :
        FeedbackPatch(FeedbackModerated(gone, [status |-> "closed"])).res.status = 404

(***************************************************************************)
(* C27.  Order and size of the listings.                                   *)
(***************************************************************************)
\* The documents of the list are ordered by creation time, latest first.
NewestFirst(items) ==
    \A i, j \in 1..Len(items) : i < j => items[i].createdAt >= items[j].createdAt

\* The list holds n documents of S, or all of S when S has fewer, and every
\* document of S it leaves out was created before every one it holds.
MostRecentOf(items, S, n) ==
    /\ Len(items) = (IF Cardinality(S) < n THEN Cardinality(S) ELSE n)
    /\ \A i, j \in 1..Len(items) : i # j => items[i]._id # items[j]._id
    /\ \A i \in 1..Len(items) : \E d \in S : d._id = items[i]._id
    /\ \A d \in S :
        (\A i \in 1..Len(items) : items[i]._id # d._id) =>
            \A i \in 1..Len(items) : d.createdAt < items[i].createdAt

C28_OneDeleteSucceeds ==
    /\ \A req \in RaceAdminRequests :
        LET out == CommentsDelete(req)
        IN  IF req.params.id \in DOMAIN comments
            THEN out.res.status = 200 /\ req.params.id \notin DOMAIN out.comments
            ELSE out.res = ErrorJson(404, "NOT_FOUND")
    /\ \A c \in Clients :
        (/\ inflight[c].op = "selfDelete"
         /\ inflight[c].comment # <<>>
         /\ inflight[c].req.body.editKey = IssuedKey(inflight[c].req.params.id)) =>
            LET id == inflight[c].req.params.id
                out == SelfDeleteResume(inflight[c])
            IN  IF id \in DOMAIN comments
                THEN out.res.status = 200 /\ id \notin DOMAIN out.comments
                ELSE out.res = ErrorJson(404, "NOT_FOUND")

(***************************************************************************)
(* C29.  With auto-visibility on, no comment is pending in any state and   *)
(* every comment is visible when it is created.  In every configuration,   *)
(* a comment that is visible or hidden is visible or hidden after every    *)
(* step that keeps it: pending is the status of a comment only from its    *)
(* creation until its first change of status.                              *)
(***************************************************************************)
C29_PendingOnlyInitially ==
    /\ [](AUTO_VISIBLE => \A id \in DOMAIN comments : comments[id].status # "pending")
    /\ [][comments' # comments =>
            \A id \in DOMAIN comments' :
                IF id \in DOMAIN comments
                THEN comments[id].status \in {"visible", "hidden"}
                        => comments'[id].status \in {"visible", "hidden"}
                ELSE comments'[id].status = (IF AUTO_VISIBLE THEN "visible" ELSE "pending")]_vars

\* With auto-visibility on, a comment has been hidden and a later one created.
C29_Witness ==
    /\ AUTO_VISIBLE
    /\ \E i, j \in DOMAIN comments :
        i < j /\ comments[i].status = "hidden" /\ comments[j].status = "visible"

(***************************************************************************)
(* C30.  A self-edit or self-delete that does not answer success writes    *)
(* nothing: whether it answers 400 VALIDATION_ERROR, 404 NOT_FOUND, 403     *)
(* FORBIDDEN or 500, every comment and every feedback is as before, and    *)
(* no id is handed out.  The same holds when the handler is suspended at   *)
(* its findById and resumed at once: the check of the secret comes before  *)
(* the write.                                                              *)
(***************************************************************************)
C30_FailedSelfServiceWritesNothing ==
    /\ \A req \in CommentsPatchSelfRequests :
        /\ CommentsPatchSelf(req).res.status # 200 => StoreUnchanged(CommentsPatchSelf(req))
        /\ (selfEditSchemaOk(req.body) /\ ValidObjectId(req.params.id)
            /\ SelfEditResume(SelfEditLoaded(req)).res.status # 200)
                => StoreUnchanged(SelfEditResume(SelfEditLoaded(req)))
    /\ \A req \in CommentsDeleteSelfRequests :
        /\ CommentsDeleteSelf(req).res.status # 200 => StoreUnchanged(CommentsDeleteSelf(req))
        /\ (selfDeleteSchemaOk(req.body) /\ ValidObjectId(req.params.id)
            /\ SelfDeleteResume(SelfDeleteLoaded(req)).res.status # 200)
                => StoreUnchanged(SelfDeleteResume(SelfDeleteLoaded(req)))

\* A comment is stored and a handed-out id is not; self-service requests
\* answer 400, 403 and 404.
C30_Witness ==
    \E here \in DOMAIN comments, gone \in (1..nextId) \ DOMAIN comments :
        /\ CommentsPatchSelf(SelfEditRequest(here, [body |-> TooShort, editKey |-> IssuedKey(here)])).res.status = 400
        /\ CommentsPatchSelf(SelfEditRequest(here, [body |-> Hello, editKey |-> "guess"])).res.status = 403
        /\ CommentsDeleteSelf(SelfEditRequest(here, [editKey |-> "guess"])).res.status = 403
        /\ CommentsDeleteSelf(SelfEditRequest(gone, [editKey |-> IssuedKey(gone)])).res.status = 404

(***************************************************************************)
(* C23.  As stated: for a stored comment whose status a moderator has      *)
(* changed or that a claim-by-email has given an authorId, self-edit and   *)
(* self-delete with the secret its creation answered with succeed: the     *)
(* edit answers 200 and stores the new body, the delete answers 200 and    *)
(* removes the comment.                                                    *)
(***************************************************************************)
C23_SecretOutlivesModeration ==
    \A id \in DOMAIN comments :
        (Has(comments[id], "authorId") \/ comments[id].status # InitialStatus) =>
            LET edit == CommentsPatchSelf(SelfEditRequest(id,
                            [body |-> Howdy, editKey |-> IssuedKey(id)]))
                del == CommentsDeleteSelf(SelfEditRequest(id, [editKey |-> IssuedKey(id)]))
            IN  /\ edit.res.status = 200
                /\ edit.comments[id].body = NormalizeText(Howdy)
                /\ del.res.status = 200
                /\ id \notin DOMAIN del.comments

=============================================================================
